---- MODULE Spec2Model ----
(***************************************************************************)
(* State-machine model of RosNMEADriver (libnmea_navsat_driver/driver.py). *)
(* One RosNMEADriver object is constructed (__init__) and then fed NMEA    *)
(* sentences through add_sentence, one call at a time.                     *)
(*                                                                         *)
(* Floats are modelled exactly as decimal numbers m * 10^e (normalised so  *)
(* that equal numbers have equal representations) plus one not-a-number    *)
(* value; rounding of binary floating point is not modelled.               *)
(* check_nmea_checksum and parse_nmea_sentence are collaborators outside   *)
(* driver.py: a sentence carries the result each of them gives for it.     *)
(***************************************************************************)
EXTENDS Integers, Sequences, FiniteSets, TLC

(***************************************************************************)
(* Bounds of the model.                                                    *)
(***************************************************************************)
\* GGA fix-quality codes fed to the driver range over -1 .. MaxFixType
MaxFixType == 3
\* GST sentences fed to the driver report (k/10, 2k/10, 3k/10) for k in
\* 1 .. MaxSd; for k = 1 also with any of the three fields NaN
MaxSd == 2
\* largest number of backslash-separated pieces in one nmea_string
MaxPieces == 2
\* number of threads that call add_sentence on one driver at the same time
MaxThreads == 3

(***************************************************************************)
(* Floating point values.                                                  *)
(***************************************************************************)
RECURSIVE Norm(_, _)
Norm(m, e) ==
    IF m = 0 THEN [nan |-> FALSE, m |-> 0, e |-> 0]
    ELSE IF m % 10 = 0 THEN Norm(m \div 10, e + 1)
    ELSE [nan |-> FALSE, m |-> m, e |-> e]

\* the float m * 10^e
Num(m, e) == Norm(m, e)

\* float("nan")
NaN == [nan |-> TRUE, m |-> 0, e |-> 0]

\* math.isnan
isnan(x) == x.nan

RECURSIVE Pow10(_)
Pow10(k) == IF k = 0 THEN 1 ELSE 10 * Pow10(k - 1)

\* a * b
FMul(a, b) ==
    IF a.nan \/ b.nan THEN NaN ELSE Norm(a.m * b.m, a.e + b.e)

\* a + b
FAdd(a, b) ==
    IF a.nan \/ b.nan THEN NaN
    ELSE LET e == IF a.e < b.e THEN a.e ELSE b.e
         IN  Norm(a.m * Pow10(a.e - e) + b.m * Pow10(b.e - e), e)

\* -a
FNeg(a) == IF a.nan THEN NaN ELSE [a EXCEPT !.m = 0 - a.m]

\* a ** 2
FSq(a) == FMul(a, a)


\* truth value of a float in a Python condition: only zero is false
truthy(x) == x.nan \/ x.m # 0

\* math.sin and math.cos, on the angles the model feeds (0 radians, or NaN)
math_sin(x) == IF x.nan THEN NaN ELSE CASE x.m = 0 -> Num(0, 0)

math_cos(x) == IF x.nan THEN NaN ELSE CASE x.m = 0 -> Num(1, 0)

(***************************************************************************)
(* Times.  A rospy.Time is <<secs, nsecs>>; no timestamp (None) is <<>>.   *)
(***************************************************************************)
rospy_Time(secs, nsecs) == <<secs, nsecs>>

None == <<>>

\* the clock read by rospy.get_rostime()
rospy_get_rostime == rospy_Time(Num(100, 0), 0)

\* "if timestamp:" is false for None and for the zero time
timestamp_given(timestamp) ==
    /\ timestamp # None
    /\ ~(timestamp[1].m = 0 /\ timestamp[2] = 0)

(***************************************************************************)
(* Message constants of sensor_msgs.                                       *)
(***************************************************************************)
STATUS_NO_FIX == "STATUS_NO_FIX"
STATUS_FIX == "STATUS_FIX"
STATUS_SBAS_FIX == "STATUS_SBAS_FIX"
STATUS_GBAS_FIX == "STATUS_GBAS_FIX"
SERVICE_GPS == "SERVICE_GPS"
COVARIANCE_TYPE_UNKNOWN == "COVARIANCE_TYPE_UNKNOWN"
COVARIANCE_TYPE_APPROXIMATED == "COVARIANCE_TYPE_APPROXIMATED"

(***************************************************************************)
(* __init__: the default estimated position errors and the quality table.  *)
(***************************************************************************)
default_epe_quality0 == Num(1000000, 0)
default_epe_quality1 == Num(4, 0)
default_epe_quality2 == Num(1, -1)
default_epe_quality4 == Num(2, -2)
default_epe_quality5 == Num(4, 0)
default_epe_quality9 == Num(3, 0)

\* fix type -> <<default epe, NavSatStatus value, covariance type>>
gps_qualities ==
    (-1 :> <<default_epe_quality0, STATUS_NO_FIX, COVARIANCE_TYPE_UNKNOWN>>)
    @@ (0 :> <<default_epe_quality0, STATUS_NO_FIX, COVARIANCE_TYPE_UNKNOWN>>)
    @@ (1 :> <<default_epe_quality1, STATUS_FIX, COVARIANCE_TYPE_APPROXIMATED>>)
    @@ (2 :> <<default_epe_quality2, STATUS_SBAS_FIX, COVARIANCE_TYPE_APPROXIMATED>>)
    @@ (4 :> <<default_epe_quality4, STATUS_GBAS_FIX, COVARIANCE_TYPE_APPROXIMATED>>)
    @@ (5 :> <<default_epe_quality5, STATUS_GBAS_FIX, COVARIANCE_TYPE_APPROXIMATED>>)
    @@ (9 :> <<default_epe_quality9, STATUS_GBAS_FIX, COVARIANCE_TYPE_APPROXIMATED>>)

(***************************************************************************)
(* The driver object.                                                      *)
(***************************************************************************)
VARIABLES
    use_GNSS_time,       \* self.use_GNSS_time (configuration)
    use_RMC,             \* self.use_RMC (configuration)
    valid_fix,           \* self.valid_fix
    using_receiver_epe,  \* self.using_receiver_epe
    lon_std_dev,         \* self.lon_std_dev
    lat_std_dev,         \* self.lat_std_dev
    alt_std_dev,         \* self.alt_std_dev
    published,           \* the messages published during the latest call, in order
    call,                \* the latest call: its arguments, its return value and
                         \* the fusion state it started from
    last_gst,            \* the data of the latest GST sentence handled, if any
    pc,                  \* per thread: the line of add_sentence it is about to run
    local,               \* per thread: the local variables of its call
    writer               \* which call last wrote lon_std_dev, lat_std_dev and
                         \* alt_std_dev (0: __init__; otherwise the thread)

vars == <<use_GNSS_time, use_RMC, valid_fix, using_receiver_epe,
          lon_std_dev, lat_std_dev, alt_std_dev, published, call, last_gst,
          pc, local, writer>>

\* the driver object as one record
Self ==
    [use_GNSS_time |-> use_GNSS_time, use_RMC |-> use_RMC,
     valid_fix |-> valid_fix, using_receiver_epe |-> using_receiver_epe,
     lon_std_dev |-> lon_std_dev, lat_std_dev |-> lat_std_dev,
     alt_std_dev |-> alt_std_dev]

\* the three standard deviations of a driver object or of a GST sentence
StdDevs(s) == <<s.lon_std_dev, s.lat_std_dev, s.alt_std_dev>>

\* the part of the driver object that add_sentence may change
FusionState(self) ==
    [valid_fix |-> self.valid_fix, using_receiver_epe |-> self.using_receiver_epe,
     lon_std_dev |-> self.lon_std_dev, lat_std_dev |-> self.lat_std_dev,
     alt_std_dev |-> self.alt_std_dev]


(***************************************************************************)
(* add_sentence.  An nmea_string is a record                               *)
(*   text        the backslash-separated pieces of the string, each with   *)
(*               its first character (lead) and the characters that follow *)
(*               it up to the first comma (head)                           *)
(*   checksum_ok what check_nmea_checksum returns for the string           *)
(*   parsed      what parse_nmea_sentence returns for the string: a record *)
(*               [tag, data] for the dictionary {tag: data}, or NoParse    *)
(* The result of a call is [self, ret, pub]: the driver object after the   *)
(* call, the value returned ("True", "False" or "None") and the messages   *)
(* published, in order.                                                    *)
(***************************************************************************)
NoParse == [tag |-> "", data |-> <<>>]

Result(self, ret, pub) == [self |-> self, ret |-> ret, pub |-> pub]

\* the sentence prefixes that are not echoed on nmea_sentences
blacklisted(sentence) ==
    /\ sentence.lead = "$"
    /\ sentence.head \in {"MXPGN", "PSMDSTAT", "AGRSA", "ERRPM"}

\* the HeaderString messages published for the pieces of nmea_string
echo_sentences(nmea_string) ==
    LET keep(sentence) ==
            /\ sentence.lead \in {"$", "!"}
            /\ ~blacklisted(sentence)
        kept == SelectSeq(nmea_string.text, keep)
    IN  [i \in 1 .. Len(kept) |->
            [kind |-> "HeaderString", stamp |-> rospy_get_rostime,
             data |-> kept[i]]]

\* the key of gps_qualities used for a reported fix type
quality_key(fix_type) ==
    IF fix_type \in DOMAIN gps_qualities THEN fix_type ELSE -1

\* mutant of gga_valid_fix: tests the reported code, not the looked-up key
gga_valid_fix_reported(data_fix_type, fix_type) == data_fix_type > 0

\* mutant of gga_valid_fix: code 0 (invalid) counted as a fix
gga_valid_fix_from_zero(data_fix_type, fix_type) == fix_type >= 0

\* self.valid_fix as the GGA branch sets it
gga_valid_fix(data_fix_type, fix_type) == fix_type > 0

\* mutant of epe_or_default: the receiver's estimate is never used
epe_always_default(using_epe, std_dev, default) == default

\* mutant of epe_or_default: a value already stored is kept, whoever stored it
epe_keep_stored(using_epe, std_dev, default) ==
    IF isnan(std_dev) THEN default ELSE std_dev

\* a standard deviation after the GGA branch's "use default epe" step
epe_or_default(using_epe, std_dev, default) ==
    IF ~using_epe \/ isnan(std_dev) THEN default ELSE std_dev

\* the GGA branch from the fix type lookup on: the driver object it leaves
gga_state(self, data) ==
    LET fix_type == quality_key(data.fix_type)
        default_epe == gps_qualities[fix_type][1]
    IN  [self EXCEPT
            !.valid_fix = gga_valid_fix(data.fix_type, fix_type),
            !.lon_std_dev =
                epe_or_default(self.using_receiver_epe, self.lon_std_dev, default_epe),
            !.lat_std_dev =
                epe_or_default(self.using_receiver_epe, self.lat_std_dev, default_epe),
            !.alt_std_dev =
                epe_or_default(self.using_receiver_epe, self.alt_std_dev,
                               FMul(default_epe, Num(2, 0)))]

\* mutant of signed: the hemisphere letter is ignored
signed_ignoring_direction(value, direction, negative) == value

\* latitude or longitude with the sign of its hemisphere
signed(value, direction, negative) ==
    IF direction = negative THEN FNeg(value) ELSE value

\* the NavSatFix the GGA branch publishes; self is the object after gga_state
gga_fix(self, data, stamp, frame_id) ==
    LET gps_qual == gps_qualities[quality_key(data.fix_type)]
        hdop == data.hdop
        zero == Num(0, 0)
    IN  [kind |-> "NavSatFix", stamp |-> stamp, frame_id |-> frame_id,
         status |-> gps_qual[2], service |-> SERVICE_GPS,
         position_covariance_type |-> gps_qual[3],
         latitude |-> signed(data.latitude, data.latitude_direction, "S"),
         longitude |-> signed(data.longitude, data.longitude_direction, "W"),
         altitude |-> FAdd(data.altitude, data.mean_sea_level),
         position_covariance |->
            <<FSq(FMul(hdop, self.lon_std_dev)), zero, zero,
              zero, FSq(FMul(hdop, self.lat_std_dev)), zero,
              zero, zero, FSq(FMul(FMul(Num(2, 0), hdop), self.alt_std_dev))>>]

\* mutant of time_ref: the time field is not tested for not-a-number
time_ref_no_nan_check(self, data, current_time, frame_id) ==
    IF ~self.use_GNSS_time
    THEN <<[kind |-> "TimeReference", stamp |-> current_time,
            frame_id |-> frame_id,
            time_ref |-> rospy_Time(data.utc_time[1], data.utc_time[2])]>>
    ELSE <<>>

\* the TimeReference published after a fix, if any
time_ref(self, data, current_time, frame_id) ==
    IF ~(isnan(data.utc_time[1]) \/ self.use_GNSS_time)
    THEN <<[kind |-> "TimeReference", stamp |-> current_time,
            frame_id |-> frame_id,
            time_ref |-> rospy_Time(data.utc_time[1], data.utc_time[2])]>>
    ELSE <<>>

\* mutant of time_invalid: the GNSS-time check is missing
time_invalid_never(self, data) == FALSE

\* "if self.use_GNSS_time: if math.isnan(data['utc_time'][0])"
time_invalid(self, data) == self.use_GNSS_time /\ isnan(data.utc_time[1])

\* the stamp of current_fix
fix_stamp(self, data, current_time) ==
    IF self.use_GNSS_time
    THEN rospy_Time(data.utc_time[1], data.utc_time[2])
    ELSE current_time

\* mutant of handle_GGA: the time check comes after the state is updated
handle_GGA_late_time_check(self, data, current_time, frame_id, pub) ==
    LET after == gga_state(self, data)
        fix == gga_fix(after, data, fix_stamp(self, data, current_time), frame_id)
    IN  IF time_invalid(self, data)
        THEN Result(after, "False", pub)
        ELSE Result(after, "None",
                    pub \o <<fix>> \o time_ref(self, data, current_time, frame_id))

\* "if not self.use_RMC and 'GGA' in parsed_sentence"
handle_GGA(self, data, current_time, frame_id, pub) ==
    IF time_invalid(self, data)
    THEN Result(self, "False", pub)
    ELSE LET after == gga_state(self, data)
             fix == gga_fix(after, data, fix_stamp(self, data, current_time),
                            frame_id)
         IN  Result(after, "None",
                    pub \o <<fix>> \o time_ref(self, data, current_time, frame_id))

\* the NavSatFix the RMC branch publishes when use_RMC is set
rmc_fix(data, stamp, frame_id) ==
    LET zero == Num(0, 0)
    IN  [kind |-> "NavSatFix", stamp |-> stamp, frame_id |-> frame_id,
         status |-> IF data.fix_valid THEN STATUS_FIX ELSE STATUS_NO_FIX,
         service |-> SERVICE_GPS,
         position_covariance_type |-> COVARIANCE_TYPE_UNKNOWN,
         latitude |-> signed(data.latitude, data.latitude_direction, "S"),
         longitude |-> signed(data.longitude, data.longitude_direction, "W"),
         altitude |-> NaN,
         position_covariance |->
            <<zero, zero, zero, zero, zero, zero, zero, zero, zero>>]

\* the TwistStamped the RMC branch publishes for a valid fix
rmc_vel(data, current_time, frame_id) ==
    [kind |-> "TwistStamped", stamp |-> current_time, frame_id |-> frame_id,
     x |-> FMul(data.speed, math_sin(data.true_course)),
     y |-> FMul(data.speed, math_cos(data.true_course))]

\* mutant of rmc_fix_msgs: the fix is published whatever use_RMC says
rmc_fix_msgs_always(self, data, current_time, frame_id) ==
    <<rmc_fix(data, fix_stamp(self, data, current_time), frame_id)>>
    \o time_ref(self, data, current_time, frame_id)

\* "if self.use_RMC": the fix and the time reference of the RMC branch
rmc_fix_msgs(self, data, current_time, frame_id) ==
    IF self.use_RMC
    THEN <<rmc_fix(data, fix_stamp(self, data, current_time), frame_id)>>
         \o time_ref(self, data, current_time, frame_id)
    ELSE <<>>

\* mutant of rmc_vel_msgs: the velocity is published for an invalid fix too
rmc_vel_msgs_always(self, data, current_time, frame_id) ==
    <<rmc_vel(data, current_time, frame_id)>>

\* mutant of rmc_vel_msgs: the velocity sits inside the "if self.use_RMC" block
rmc_vel_msgs_in_rmc_mode(self, data, current_time, frame_id) ==
    IF self.use_RMC /\ data.fix_valid
    THEN <<rmc_vel(data, current_time, frame_id)>>
    ELSE <<>>

\* "if data['fix_valid']": the velocity of the RMC branch
rmc_vel_msgs(self, data, current_time, frame_id) ==
    IF data.fix_valid
    THEN <<rmc_vel(data, current_time, frame_id)>>
    ELSE <<>>

\* "elif 'RMC' in parsed_sentence"
handle_RMC(self, data, current_time, frame_id, pub) ==
    IF time_invalid(self, data)
    THEN Result(self, "False", pub)
    ELSE Result(self, "None",
                pub \o rmc_fix_msgs(self, data, current_time, frame_id)
                    \o rmc_vel_msgs(self, data, current_time, frame_id))

\* mutant of handle_GST: using_receiver_epe is not set
handle_GST_no_flag(self, data, current_time, frame_id, pub) ==
    Result([self EXCEPT !.lon_std_dev = data.lon_std_dev,
                        !.lat_std_dev = data.lat_std_dev,
                        !.alt_std_dev = data.alt_std_dev],
           "None", pub)

\* mutant of handle_GST: lat_std_dev is read from self.alt_std_dev
handle_GST_stale_lat(self, data, current_time, frame_id, pub) ==
    Result([self EXCEPT !.using_receiver_epe = TRUE,
                        !.lon_std_dev = data.lon_std_dev,
                        !.lat_std_dev = self.alt_std_dev,
                        !.alt_std_dev = data.alt_std_dev],
           "None", pub)

\* mutant of handle_GST: the fix validity is reset with the error estimate
handle_GST_resets_fix(self, data, current_time, frame_id, pub) ==
    Result([self EXCEPT !.using_receiver_epe = TRUE,
                        !.valid_fix = FALSE,
                        !.lon_std_dev = data.lon_std_dev,
                        !.lat_std_dev = data.lat_std_dev,
                        !.alt_std_dev = data.alt_std_dev],
           "None", pub)

\* "elif 'GST' in parsed_sentence"
handle_GST(self, data, current_time, frame_id, pub) ==
    Result([self EXCEPT !.using_receiver_epe = TRUE,
                        !.lon_std_dev = data.lon_std_dev,
                        !.lat_std_dev = data.lat_std_dev,
                        !.alt_std_dev = data.alt_std_dev],
           "None", pub)

\* the sentence types that map 1:1 onto a message of their own
AuxTags ==
    {"HDT", "RSA", "GSA", "ZDA", "RPM", "HDG", "ROT", "GSV", "VTG", "VBW",
     "GLL", "VDM", "VDO"}

\* the auxiliary branches with the test of the RSA branch left out
handle_aux_unchecked(self, tag, data, current_time, frame_id, pub) ==
    Result(self, "None",
           pub \o <<[kind |-> tag, stamp |-> current_time,
                     frame_id |-> frame_id, data |-> data]>>)

\* the branches from "elif 'HDT' in parsed_sentence" to 'VDO'
handle_aux(self, tag, data, current_time, frame_id, pub) ==
    IF tag = "RSA" /\ ~truthy(data.rudder_angle)
    THEN Result(self, "None", pub)
    ELSE Result(self, "None",
                pub \o <<[kind |-> tag, stamp |-> current_time,
                          frame_id |-> frame_id, data |-> data]>>)

\* add_sentence(self, nmea_string, frame_id, timestamp)
add_sentence(self, nmea_string, frame_id, timestamp) ==
    LET pub == echo_sentences(nmea_string)
        parsed_sentence == nmea_string.parsed
        tag == parsed_sentence.tag
        data == parsed_sentence.data
        current_time ==
            IF timestamp_given(timestamp) THEN timestamp ELSE rospy_get_rostime
    IN  IF ~nmea_string.checksum_ok THEN Result(self, "False", pub)
        ELSE IF tag = NoParse.tag THEN Result(self, "False", pub)
        ELSE IF ~self.use_RMC /\ tag = "GGA"
            THEN handle_GGA(self, data, current_time, frame_id, pub)
        ELSE IF tag = "RMC"
            THEN handle_RMC(self, data, current_time, frame_id, pub)
        ELSE IF tag = "GST"
            THEN handle_GST(self, data, current_time, frame_id, pub)
        ELSE IF tag \in AuxTags
            THEN handle_aux(self, tag, data, current_time, frame_id, pub)
        ELSE Result(self, "False", pub)


(***************************************************************************)
(* The sentences and timestamps fed to the driver.                         *)
(***************************************************************************)
FrameId == "gps"

UtcTimes == {<<NaN, 0>>, <<Num(45319, 0), 0>>}

FixTypes == -1 .. MaxFixType

\* a GGA sentence: fix type q, utc_time u, hdop h, hemispheres d
GGA(q, u, h, d) ==
    [tag |-> "GGA",
     data |-> [utc_time |-> u, fix_type |-> q, hdop |-> h,
               latitude |-> Num(481173, -4), latitude_direction |-> d[1],
               longitude |-> Num(115167, -4), longitude_direction |-> d[2],
               altitude |-> Num(5454, -1), mean_sea_level |-> Num(469, -1)]]

\* an RMC sentence: fix_valid v, utc_time u, hemispheres d
RMC(v, u, d) ==
    [tag |-> "RMC",
     data |-> [utc_time |-> u, fix_valid |-> v,
               latitude |-> Num(481173, -4), latitude_direction |-> d[1],
               longitude |-> Num(115167, -4), longitude_direction |-> d[2],
               speed |-> Num(224, -1), true_course |-> Num(0, 0)]]

\* a GST sentence reporting (k/10, 2k/10, 3k/10), NaN where n says so
GST(k, n) ==
    [tag |-> "GST",
     data |-> [lon_std_dev |-> IF n[1] THEN NaN ELSE Num(k, -1),
               lat_std_dev |-> IF n[2] THEN NaN ELSE Num(2 * k, -1),
               alt_std_dev |-> IF n[3] THEN NaN ELSE Num(3 * k, -1)]]

GGASentences ==
    {GGA(q, u, Num(9, -1), <<"N", "E">>) : q \in FixTypes, u \in UtcTimes}
    \cup {GGA(1, <<Num(45319, 0), 0>>, Num(2, 0), <<"N", "E">>),
          GGA(1, <<Num(45319, 0), 0>>, Num(9, -1), <<"S", "E">>),
          GGA(1, <<Num(45319, 0), 0>>, Num(9, -1), <<"N", "W">>)}

RMCSentences ==
    {RMC(v, u, <<"N", "E">>) : v \in BOOLEAN, u \in UtcTimes}
    \cup {RMC(TRUE, <<Num(45319, 0), 0>>, <<"S", "E">>),
          RMC(TRUE, <<Num(45319, 0), 0>>, <<"N", "W">>)}

GSTSentences ==
    {GST(k, <<FALSE, FALSE, FALSE>>) : k \in 1 .. MaxSd}
    \cup {GST(1, n) : n \in BOOLEAN \X BOOLEAN \X BOOLEAN}

AuxSentences ==
    {[tag |-> "RSA", data |-> [rudder_angle |-> a]] :
        a \in {Num(0, 0), Num(5, 0), NaN}}
    \cup {[tag |-> g, data |-> [field |-> Num(1, 0)]] : g \in AuxTags \ {"RSA"}}

\* a dictionary with a sentence type that add_sentence has no branch for
OtherSentence == [tag |-> "TXT", data |-> [field |-> Num(1, 0)]]

Parsed ==
    GGASentences \cup RMCSentences \cup GSTSentences \cup AuxSentences
    \cup {OtherSentence, NoParse}

\* one piece of an nmea_string
Pieces ==
    {[lead |-> "$", head |-> "GPGGA"], [lead |-> "$", head |-> "MXPGN"],
     [lead |-> "", head |-> ""]}

PlainText == <<[lead |-> "$", head |-> "GPGGA"]>>

Texts == UNION {[1 .. n -> Pieces] : n \in 1 .. MaxPieces}

ArrivalTime == rospy_Time(Num(7, 0), 5)

ZeroTime == rospy_Time(Num(0, 0), 0)

\* an nmea_string with plain text and a good checksum that parses to p
Sentence(p) == [text |-> PlainText, checksum_ok |-> TRUE, parsed |-> p]

\* the sentences whose text, checksum and timestamp are varied
ProbeGGA == GGA(1, <<Num(45319, 0), 0>>, Num(9, -1), <<"N", "E">>)

ProbeRMC == RMC(TRUE, <<Num(45319, 0), 0>>, <<"N", "E">>)

Calls ==
    {[nmea_string |-> [text |-> PlainText, checksum_ok |-> TRUE, parsed |-> p],
      timestamp |-> None] : p \in Parsed}
    \cup {[nmea_string |-> [text |-> x, checksum_ok |-> TRUE, parsed |-> ProbeGGA],
           timestamp |-> None] : x \in Texts}
    \cup {[nmea_string |-> [text |-> x, checksum_ok |-> FALSE, parsed |-> p],
           timestamp |-> None] :
            x \in {y \in Texts : Len(y) = 1},
            p \in {ProbeGGA, GST(1, <<FALSE, FALSE, FALSE>>)}}
    \cup {[nmea_string |-> [text |-> PlainText, checksum_ok |-> TRUE, parsed |-> p],
           timestamp |-> ts] :
            p \in {ProbeGGA, ProbeRMC}, ts \in {ZeroTime, ArrivalTime}}

(***************************************************************************)
(* The state machine.                                                      *)
(***************************************************************************)
NoCall ==
    [nmea_string |-> [text |-> <<>>, checksum_ok |-> FALSE, parsed |-> NoParse],
     timestamp |-> None, ret |-> "", pre |-> <<>>]

Threads == 1 .. MaxThreads

\* the local variables of a thread that has not called add_sentence
NoLocals ==
    [tag |-> "", data |-> <<>>, current_time |-> None, default_epe |-> NaN,
     covariance |-> <<>>, used |-> <<>>]

\* __init__, for each configuration of ~use_GNSS_time and ~useRMC
Init ==
    /\ use_GNSS_time \in BOOLEAN
    /\ use_RMC \in BOOLEAN
    /\ valid_fix = FALSE
    /\ using_receiver_epe = FALSE
    /\ lon_std_dev = NaN
    /\ lat_std_dev = NaN
    /\ alt_std_dev = NaN
    /\ published = <<>>
    /\ call = NoCall
    /\ last_gst = <<>>
    /\ pc = [t \in Threads |-> "idle"]
    /\ local = [t \in Threads |-> NoLocals]
    /\ writer = <<0, 0, 0>>

\* one call of add_sentence
AddSentence(c) ==
    \E r \in {add_sentence(Self, c.nmea_string, FrameId, c.timestamp)} :
        /\ valid_fix' = r.self.valid_fix
        /\ using_receiver_epe' = r.self.using_receiver_epe
        /\ lon_std_dev' = r.self.lon_std_dev
        /\ lat_std_dev' = r.self.lat_std_dev
        /\ alt_std_dev' = r.self.alt_std_dev
        /\ use_GNSS_time' = r.self.use_GNSS_time
        /\ use_RMC' = r.self.use_RMC
        /\ published' = r.pub
        /\ call' = [nmea_string |-> c.nmea_string, timestamp |-> c.timestamp,
                    ret |-> r.ret, pre |-> FusionState(Self)]
        /\ last_gst' =
            IF c.nmea_string.checksum_ok /\ c.nmea_string.parsed.tag = "GST"
            THEN <<c.nmea_string.parsed.data>>
            ELSE last_gst
        /\ UNCHANGED <<pc, local, writer>>

Next == \E c \in Calls : AddSentence(c)

Spec == Init /\ [][Next]_vars

(***************************************************************************)
(* add_sentence called from several threads on one driver object.  The     *)
(* code takes no lock, so the calls interleave between statements; each    *)
(* step below is one statement (or a run of statements that touch only     *)
(* locals) of the GGA branch or of the GST branch, named by its line.      *)
(* Each thread makes one call.                                             *)
(***************************************************************************)
ThreadSentences ==
    {GST(k, <<FALSE, FALSE, FALSE>>) : k \in 1 .. MaxSd} \cup {ProbeGGA}

\* lines 193-240 and the dispatch: echo, checksum, parse, choice of branch
Begin(t, p) ==
    /\ pc[t] = "idle"
    /\ LET branch ==
            IF ~use_RMC /\ p.tag = "GGA" /\ ~time_invalid(Self, p.data)
            THEN "l252"
            ELSE IF p.tag = "GST" THEN "l356" ELSE "done"
       IN  /\ pc' = [pc EXCEPT ![t] = branch]
           /\ local' = [local EXCEPT ![t] =
                    [NoLocals EXCEPT !.tag = p.tag, !.data = p.data,
                                     !.current_time = rospy_get_rostime]]
           /\ published' = published \o echo_sentences(Sentence(p))
    /\ UNCHANGED <<use_GNSS_time, use_RMC, valid_fix, using_receiver_epe,
                   lon_std_dev, lat_std_dev, alt_std_dev, call, last_gst, writer>>

\* the GST branch, lines 356-359, one assignment at a time
StepGST(t) ==
    /\ pc[t] \in {"l356", "l357", "l358", "l359"}
    /\ using_receiver_epe' = IF pc[t] = "l356" THEN TRUE ELSE using_receiver_epe
    /\ lon_std_dev' = IF pc[t] = "l357" THEN local[t].data.lon_std_dev ELSE lon_std_dev
    /\ lat_std_dev' = IF pc[t] = "l358" THEN local[t].data.lat_std_dev ELSE lat_std_dev
    /\ alt_std_dev' = IF pc[t] = "l359" THEN local[t].data.alt_std_dev ELSE alt_std_dev
    /\ writer' = [i \in 1 .. 3 |->
                    IF pc[t] = <<"l357", "l358", "l359">>[i] THEN t ELSE writer[i]]
    /\ pc' = [pc EXCEPT ![t] =
                CASE pc[t] = "l356" -> "l357"
                  [] pc[t] = "l357" -> "l358"
                  [] pc[t] = "l358" -> "l359"
                  [] pc[t] = "l359" -> "done"]
    /\ UNCHANGED <<use_GNSS_time, use_RMC, valid_fix, published, call, last_gst,
                   local>>

\* the GGA branch, lines 252-285: the lookup, valid_fix and the three
\* "use default epe" statements, one at a time
StepGGAState(t) ==
    /\ pc[t] \in {"l252", "l280", "l282", "l284"}
    /\ LET fix_type == quality_key(local[t].data.fix_type)
           default_epe == local[t].default_epe
           lon == epe_or_default(using_receiver_epe, lon_std_dev, default_epe)
           lat == epe_or_default(using_receiver_epe, lat_std_dev, default_epe)
           alt == epe_or_default(using_receiver_epe, alt_std_dev,
                                 FMul(default_epe, Num(2, 0)))
       IN  /\ valid_fix' =
                IF pc[t] = "l252"
                THEN gga_valid_fix(local[t].data.fix_type, fix_type)
                ELSE valid_fix
           /\ local' =
                IF pc[t] = "l252"
                THEN [local EXCEPT ![t].default_epe = gps_qualities[fix_type][1]]
                ELSE local
           /\ lon_std_dev' = IF pc[t] = "l280" THEN lon ELSE lon_std_dev
           /\ lat_std_dev' = IF pc[t] = "l282" THEN lat ELSE lat_std_dev
           /\ alt_std_dev' = IF pc[t] = "l284" THEN alt ELSE alt_std_dev
           /\ writer' =
                [i \in 1 .. 3 |->
                    IF /\ pc[t] = <<"l280", "l282", "l284">>[i]
                       /\ (~using_receiver_epe \/ isnan(StdDevs(Self)[i]))
                    THEN t
                    ELSE writer[i]]
    /\ pc' = [pc EXCEPT ![t] =
                CASE pc[t] = "l252" -> "l280"
                  [] pc[t] = "l280" -> "l282"
                  [] pc[t] = "l282" -> "l284"
                  [] pc[t] = "l284" -> "l288"]
    /\ UNCHANGED <<use_GNSS_time, use_RMC, using_receiver_epe, published, call,
                   last_gst>>

\* the GGA branch, lines 287-291: the three covariance terms, one at a time
StepGGACovariance(t) ==
    /\ pc[t] \in {"l288", "l289", "l290"}
    /\ LET hdop == local[t].data.hdop
           term ==
               CASE pc[t] = "l288" -> FSq(FMul(hdop, lon_std_dev))
                 [] pc[t] = "l289" -> FSq(FMul(hdop, lat_std_dev))
                 [] pc[t] = "l290" ->
                        FSq(FMul(FMul(Num(2, 0), hdop), alt_std_dev))
           read ==
               CASE pc[t] = "l288" -> writer[1]
                 [] pc[t] = "l289" -> writer[2]
                 [] pc[t] = "l290" -> writer[3]
       IN  local' = [local EXCEPT
                        ![t].covariance = Append(@, term),
                        ![t].used = Append(@, read)]
    /\ pc' = [pc EXCEPT ![t] =
                CASE pc[t] = "l288" -> "l289"
                  [] pc[t] = "l289" -> "l290"
                  [] pc[t] = "l290" -> "l293"]
    /\ UNCHANGED <<use_GNSS_time, use_RMC, valid_fix, using_receiver_epe,
                   lon_std_dev, lat_std_dev, alt_std_dev, published, call,
                   last_gst, writer>>

\* the GGA branch, lines 293-299: the fix and the time reference are published
StepGGAPublish(t) ==
    /\ pc[t] = "l293"
    /\ LET data == local[t].data
           zero == Num(0, 0)
           cov == local[t].covariance
           fix == [gga_fix(Self, data,
                           fix_stamp(Self, data, local[t].current_time), FrameId)
                    EXCEPT !.position_covariance =
                        <<cov[1], zero, zero, zero, cov[2], zero,
                          zero, zero, cov[3]>>]
       IN  published' = published \o <<fix>>
                \o time_ref(Self, data, local[t].current_time, FrameId)
    /\ pc' = [pc EXCEPT ![t] = "done"]
    /\ UNCHANGED <<use_GNSS_time, use_RMC, valid_fix, using_receiver_epe,
                   lon_std_dev, lat_std_dev, alt_std_dev, call, last_gst,
                   local, writer>>

ThreadNext ==
    \E t \in Threads :
        \/ \E p \in ThreadSentences : Begin(t, p)
        \/ StepGST(t)
        \/ StepGGAState(t)
        \/ StepGGACovariance(t)
        \/ StepGGAPublish(t)

SpecThreads == Init /\ [][ThreadNext]_vars


(***************************************************************************)
(* Vocabulary of the properties.                                           *)
(***************************************************************************)
\* add_sentence has been called at least once
Called == call.ret # ""

CallTag == call.nmea_string.parsed.tag

CallData == call.nmea_string.parsed.data

\* the latest call passed the checksum and the parser
Parsable == Called /\ call.nmea_string.checksum_ok /\ CallTag # NoParse.tag

\* the latest call ran the GGA branch to its end
HandledGGA == Parsable /\ ~use_RMC /\ CallTag = "GGA" /\ call.ret # "False"

\* the latest call ran the RMC branch to its end
HandledRMC == Parsable /\ CallTag = "RMC" /\ call.ret # "False"

\* the latest call ran the GST branch
HandledGST == Parsable /\ CallTag = "GST"

\* the latest call reached the final else: no branch for the sentence type
Unrecognized ==
    /\ Parsable
    /\ CallTag \notin {"RMC", "GST"} \cup AuxTags
    /\ CallTag = "GGA" => use_RMC

\* the latest call hit the GNSS-time check with a not-a-number time
TimeFailure ==
    /\ Parsable
    /\ use_GNSS_time
    /\ \/ CallTag = "GGA" /\ ~use_RMC
       \/ CallTag = "RMC"
    /\ isnan(CallData.utc_time[1])

\* the NavSatFix messages published by the latest call
Fixes == SelectSeq(published, LAMBDA m : m.kind = "NavSatFix")

Diagonal(m) ==
    <<m.position_covariance[1], m.position_covariance[5], m.position_covariance[9]>>


(***************************************************************************)
(* C1: every call of add_sentence that fails (returns False: checksum      *)
(* mismatch, parse failure, unusable time in GNSS-time mode, unrecognized  *)
(* sentence type) leaves valid_fix, using_receiver_epe and the three       *)
(* standard deviations as they were before the call.                       *)
(***************************************************************************)
C1_FailedCallKeepsState ==
    call.ret = "False" => FusionState(Self) = call.pre

\* a GGA sentence failed the GNSS-time check after a GST and a fix were seen
C1_Witness ==
    /\ call.ret = "False"
    /\ TimeFailure
    /\ CallTag = "GGA"
    /\ CallData.fix_type = 0
    /\ call.pre.using_receiver_epe
    /\ call.pre.valid_fix

(***************************************************************************)
(* C2: a sentence with an invalid checksum, or with a valid checksum and   *)
(* an unrecognized type, hands no report at all to the publishers during   *)
(* that call, the echo on nmea_sentences included.                         *)
(***************************************************************************)
C2_NoReportForRejectedSentence ==
    (Called /\ (~call.nmea_string.checksum_ok \/ Unrecognized))
        => published = <<>>

(***************************************************************************)
(* C3: add_sentence returns True when the sentence is processed (checksum  *)
(* valid, parsed, dispatched to a branch, no time failure) and False when  *)
(* there is an error; the value returned is True or False on every path.   *)
(***************************************************************************)
C3_ReturnsTrueOrFalse ==
    Called =>
        /\ call.ret \in {"True", "False"}
        /\ call.ret = "True" <=> (Parsable /\ ~Unrecognized /\ ~TimeFailure)

(***************************************************************************)
(* C4: the three standard deviations are overwritten only by the handling  *)
(* of a GST sentence: a call that handles any other sentence leaves        *)
(* lon_std_dev, lat_std_dev and alt_std_dev unchanged.                     *)
(***************************************************************************)
C4_OnlyGSTWritesStdDevs ==
    (Called /\ ~HandledGST) => StdDevs(Self) = StdDevs(call.pre)

(***************************************************************************)
(* C5: the standard deviations are never partially updated: a call that    *)
(* changes any of the three leaves all three holding values of one source, *)
(* the GST sentence's three fields or the GGA sentence's default (doubled  *)
(* for altitude).                                                          *)
(***************************************************************************)
C5_StdDevsWrittenTogether ==
    (Called /\ StdDevs(Self) # StdDevs(call.pre)) =>
        \/ /\ HandledGST
           /\ StdDevs(Self) = StdDevs(CallData)
        \/ /\ HandledGGA
           /\ LET d == gps_qualities[quality_key(CallData.fix_type)][1]
              IN  StdDevs(Self) = <<d, d, FMul(d, Num(2, 0))>>

(***************************************************************************)
(* C6: using_receiver_epe is false after construction, becomes true        *)
(* exactly in a call that handles a GST sentence, and once true stays true *)
(* whatever sentence is fed.                                               *)
(***************************************************************************)
C6_ReceiverEpeLatch ==
    /\ ~Called => ~using_receiver_epe
    /\ Called => (using_receiver_epe <=> (call.pre.using_receiver_epe \/ HandledGST))

\* the flag was set by an earlier call and survived a GGA sentence
C6_Witness ==
    /\ HandledGGA
    /\ call.pre.using_receiver_epe
    /\ using_receiver_epe

(***************************************************************************)
(* C7: after an accepted sentence of the type that is authoritative for    *)
(* position (GGA by default, RMC when use_RMC is set), valid_fix is true   *)
(* if and only if the sentence reported a usable fix (GGA quality code > 0 *)
(* or RMC fix_valid).                                                      *)
(***************************************************************************)
C7_ValidFixTracksAuthoritativeSentence ==
    /\ HandledGGA => (valid_fix <=> CallData.fix_type > 0)
    /\ (HandledRMC /\ use_RMC) => (valid_fix <=> CallData.fix_valid)

(***************************************************************************)
(* C8: once a GST sentence with three usable standard deviations has been  *)
(* handled, every later GGA sentence handled before another GST publishes  *)
(* a NavSatFix whose covariance diagonal is (hdop*lon)^2, (hdop*lat)^2,    *)
(* (2*hdop*alt)^2 for that GST's values, and using_receiver_epe is true.   *)
(***************************************************************************)
C8_CovarianceFromLatestGST ==
    (/\ HandledGGA
     /\ last_gst # <<>>
     /\ \A i \in 1 .. 3 : ~isnan(StdDevs(last_gst[1])[i]))
        => /\ using_receiver_epe
           /\ Len(Fixes) = 1
           /\ LET g == last_gst[1]
                  hdop == CallData.hdop
              IN  Diagonal(Fixes[1]) =
                    <<FSq(FMul(hdop, g.lon_std_dev)),
                      FSq(FMul(hdop, g.lat_std_dev)),
                      FSq(FMul(FMul(Num(2, 0), hdop), g.alt_std_dev))>>

\* GST (0.2, 0.4, 0.6), later a GGA with a fix, then a GGA without a fix
\* whose covariance is still that of the GST
C8_Witness ==
    /\ HandledGGA
    /\ last_gst = <<GST(2, <<FALSE, FALSE, FALSE>>).data>>
    /\ call.pre.valid_fix
    /\ CallData.fix_type = 0
    /\ Len(Fixes) = 1
    /\ Diagonal(Fixes[1]) = <<Num(324, -4), Num(1296, -4), Num(11664, -4)>>

(***************************************************************************)
(* C9: from every reachable state, a GGA sentence whose fix-quality code   *)
(* is not a key of the quality table publishes the same messages and       *)
(* leaves the same state as the same sentence with code -1.                *)
(***************************************************************************)
C9_UnknownCodeActsAsMinusOne ==
    \A u \in UtcTimes, d \in {<<"N", "E">>, <<"S", "W">>} :
        \A q \in {c \in -2 .. 8 : c \notin DOMAIN gps_qualities} :
            add_sentence(Self, Sentence(GGA(q, u, Num(9, -1), d)), FrameId, None)
            = add_sentence(Self, Sentence(GGA(-1, u, Num(9, -1), d)), FrameId, None)

\* a GGA sentence with code 3 was handled after a fix and a GST were seen
C9_Witness ==
    /\ HandledGGA
    /\ CallData.fix_type \notin DOMAIN gps_qualities
    /\ call.pre.valid_fix
    /\ call.pre.using_receiver_epe
    /\ ~valid_fix
    /\ Fixes[1].status = STATUS_NO_FIX

(***************************************************************************)
(* C10: handling a GST sentence is idempotent on the state: from every     *)
(* reachable state, feeding the same GST sentence twice in a row leaves    *)
(* the state that feeding it once leaves.                                  *)
(***************************************************************************)
C10_GSTIdempotent ==
    \A g \in GSTSentences :
        LET once == add_sentence(Self, Sentence(g), FrameId, None).self
            twice == add_sentence(once, Sentence(g), FrameId, None).self
        IN  FusionState(twice) = FusionState(once)

\* a GST sentence was handled in the state an earlier GST and GGA had left,
\* and a second feeding of it changed nothing
C10_Witness ==
    /\ HandledGST
    /\ call.pre.using_receiver_epe
    /\ FusionState(Self) = call.pre
    /\ isnan(lon_std_dev)
    /\ ~isnan(lat_std_dev)


(***************************************************************************)
(* More vocabulary.                                                        *)
(***************************************************************************)
\* the messages of one kind published by the latest call
Velocities == SelectSeq(published, LAMBDA m : m.kind = "TwistStamped")

TimeRefs == SelectSeq(published, LAMBDA m : m.kind = "TimeReference")

\* current_time of the latest call
CallTime ==
    IF timestamp_given(call.timestamp) THEN call.timestamp ELSE rospy_get_rostime

\* the receiver clock time of the sentence of the latest call
ReceiverTime == rospy_Time(CallData.utc_time[1], CallData.utc_time[2])

(***************************************************************************)
(* C11 as claimed: an accepted RMC sentence that reports an invalid fix    *)
(* publishes no NavSatFix, even when use_RMC is set, and no TwistStamped.  *)
(***************************************************************************)
C11_InvalidRMCPublishesNothing ==
    (HandledRMC /\ ~CallData.fix_valid)
        => Len(Fixes) = 0 /\ Len(Velocities) = 0

(***************************************************************************)
(* C11 as amended: an accepted RMC sentence that reports an invalid fix    *)
(* publishes no TwistStamped; it publishes no NavSatFix when use_RMC is    *)
(* not set, and exactly one NavSatFix, of status STATUS_NO_FIX, when       *)
(* use_RMC is set.                                                         *)
(***************************************************************************)
C11_InvalidRMCPublishesNoFixStatus ==
    (HandledRMC /\ ~CallData.fix_valid)
        => /\ Len(Velocities) = 0
           /\ ~use_RMC => Len(Fixes) = 0
           /\ use_RMC => Len(Fixes) = 1 /\ Fixes[1].status = STATUS_NO_FIX

\* an RMC sentence with an invalid fix was handled in use_RMC mode
C11_Witness ==
    /\ HandledRMC
    /\ ~CallData.fix_valid
    /\ use_RMC
    /\ Len(Fixes) = 1
    /\ Len(Velocities) = 0

(***************************************************************************)
(* C12: every accepted RMC sentence that reports a valid fix publishes     *)
(* exactly one TwistStamped, with use_RMC set or not; a call that handles  *)
(* any other sentence publishes none.                                      *)
(***************************************************************************)
C12_VelocityFromValidRMC ==
    /\ (HandledRMC /\ CallData.fix_valid) => Len(Velocities) = 1
    /\ (Called /\ ~HandledRMC) => Len(Velocities) = 0

\* an RMC sentence with a valid fix was handled while GGA is authoritative
C12_Witness ==
    /\ HandledRMC
    /\ CallData.fix_valid
    /\ ~use_RMC
    /\ Len(Velocities) = 1
    /\ Len(Fixes) = 0

(***************************************************************************)
(* C13: in GNSS-time mode a GGA or RMC sentence whose time field is        *)
(* not-a-number fails the whole call: add_sentence returns False and       *)
(* publishes no NavSatFix, no TimeReference and no TwistStamped.           *)
(***************************************************************************)
C13_UnusableTimeFailsCall ==
    (/\ Parsable
     /\ use_GNSS_time
     /\ CallTag \in {"GGA", "RMC"}
     /\ isnan(CallData.utc_time[1]))
        => /\ call.ret = "False"
           /\ Len(Fixes) = 0
           /\ Len(TimeRefs) = 0
           /\ Len(Velocities) = 0

\* an RMC sentence with a valid fix and no time, RMC being authoritative
C13_Witness ==
    /\ TimeFailure
    /\ CallTag = "RMC"
    /\ CallData.fix_valid
    /\ use_RMC
    /\ call.ret = "False"

(***************************************************************************)
(* C14: exactly one NavSatFix is published for each accepted sentence of   *)
(* the authoritative position type (GGA when use_RMC is not set, RMC when  *)
(* it is), and none by a call that handles any other sentence.             *)
(***************************************************************************)
C14_OneFixPerAuthoritativeSentence ==
    Called =>
        Len(Fixes) = IF HandledGGA \/ (HandledRMC /\ use_RMC) THEN 1 ELSE 0

\* an RMC sentence was handled while GGA is authoritative: no fix
C14_Witness ==
    /\ HandledRMC
    /\ ~use_RMC
    /\ CallData.fix_valid
    /\ Len(Fixes) = 0
    /\ call.pre.valid_fix

(***************************************************************************)
(* C15: use_GNSS_time selects the stamp of every report published while    *)
(* handling a GGA or RMC sentence: in GNSS-time mode the NavSatFix and the *)
(* TwistStamped carry the receiver clock time of the sentence, otherwise   *)
(* both carry the arrival time of the call.                                *)
(***************************************************************************)
C15_FlagSelectsEveryStamp ==
    (HandledGGA \/ HandledRMC) =>
        LET expected == IF use_GNSS_time THEN ReceiverTime ELSE CallTime
        IN  /\ \A i \in DOMAIN Fixes : Fixes[i].stamp = expected
            /\ \A i \in DOMAIN Velocities : Velocities[i].stamp = expected

(***************************************************************************)
(* C16 as claimed: when not in GNSS-time mode every NavSatFix published is *)
(* followed, in the same call, by exactly one TimeReference; in GNSS-time  *)
(* mode no TimeReference is ever published.                                *)
(***************************************************************************)
C16_TimeReferenceWithEveryFix ==
    /\ use_GNSS_time => Len(TimeRefs) = 0
    /\ ~use_GNSS_time =>
        \A i \in DOMAIN published :
            published[i].kind = "NavSatFix" =>
                /\ Len(TimeRefs) = 1
                /\ \A j \in DOMAIN published :
                    published[j].kind = "TimeReference" => j > i

(***************************************************************************)
(* C16 as amended: when not in GNSS-time mode every NavSatFix published    *)
(* for a sentence whose time field is a number is followed, in the same    *)
(* call, by exactly one TimeReference, and a NavSatFix published for a     *)
(* sentence whose time field is not-a-number by none; in GNSS-time mode no *)
(* TimeReference is ever published.                                        *)
(***************************************************************************)
C16_TimeReferenceWithTimedFix ==
    /\ use_GNSS_time => Len(TimeRefs) = 0
    /\ ~use_GNSS_time =>
        \A i \in DOMAIN published :
            published[i].kind = "NavSatFix" =>
                IF isnan(CallData.utc_time[1])
                THEN Len(TimeRefs) = 0
                ELSE /\ Len(TimeRefs) = 1
                     /\ \A j \in DOMAIN published :
                            published[j].kind = "TimeReference" => j > i

\* a GGA sentence with a time was handled in arrival-time mode
C16_Witness ==
    /\ HandledGGA
    /\ ~use_GNSS_time
    /\ ~isnan(CallData.utc_time[1])
    /\ Len(Fixes) = 1
    /\ Len(TimeRefs) = 1
    /\ TimeRefs[1].time_ref = ReceiverTime

(***************************************************************************)
(* C18: in every NavSatFix published for a GGA or an RMC sentence the      *)
(* latitude is the negated magnitude when the latitude direction is S and  *)
(* the longitude the negated magnitude when the longitude direction is W;  *)
(* with N and E the magnitudes are published unchanged.                    *)
(***************************************************************************)
C18_HemisphereSign ==
    \A i \in DOMAIN Fixes :
        /\ CallData.latitude_direction = "S"
            => Fixes[i].latitude = FNeg(CallData.latitude)
        /\ CallData.latitude_direction = "N"
            => Fixes[i].latitude = CallData.latitude
        /\ CallData.longitude_direction = "W"
            => Fixes[i].longitude = FNeg(CallData.longitude)
        /\ CallData.longitude_direction = "E"
            => Fixes[i].longitude = CallData.longitude

\* an RMC fix in the south-east, or a GGA fix in the north-west
C18_Witness ==
    \/ /\ HandledRMC
       /\ CallData.latitude_direction = "S"
       /\ CallData.longitude_direction = "E"
       /\ Len(Fixes) = 1
       /\ Fixes[1].latitude.m < 0
       /\ Fixes[1].longitude.m > 0
    \/ /\ HandledGGA
       /\ CallData.latitude_direction = "N"
       /\ CallData.longitude_direction = "W"
       /\ Len(Fixes) = 1
       /\ Fixes[1].latitude.m > 0
       /\ Fixes[1].longitude.m < 0

(***************************************************************************)
(* C19: handling a GST sentence publishes no NavSatFix, TwistStamped,      *)
(* TimeReference or auxiliary message (only the echo on nmea_sentences)    *)
(* and leaves valid_fix unchanged.                                         *)
(***************************************************************************)
C19_GSTOnlyUpdatesErrorEstimate ==
    HandledGST =>
        /\ \A i \in DOMAIN published : published[i].kind = "HeaderString"
        /\ valid_fix = call.pre.valid_fix

\* a GST sentence was handled while valid_fix was true
C19_Witness ==
    /\ HandledGST
    /\ call.pre.valid_fix
    /\ valid_fix
    /\ StdDevs(Self) # StdDevs(call.pre)

(***************************************************************************)
(* C20: every standard deviation used in the covariance of the NavSatFix   *)
(* of a GGA sentence is the value reported by the latest GST sentence      *)
(* handled, or the quality-table default (doubled for altitude) of that    *)
(* GGA sentence's own fix-quality code.                                    *)
(***************************************************************************)
C20_NoStaleDefault ==
    HandledGGA =>
        LET d == gps_qualities[quality_key(CallData.fix_type)][1]
            own == <<d, d, FMul(d, Num(2, 0))>>
            factor == <<CallData.hdop, CallData.hdop,
                        FMul(Num(2, 0), CallData.hdop)>>
        IN  \A i \in 1 .. 3 :
                \/ Diagonal(Fixes[1])[i] = FSq(FMul(factor[i], own[i]))
                \/ /\ last_gst # <<>>
                   /\ ~isnan(StdDevs(last_gst[1])[i])
                   /\ Diagonal(Fixes[1])[i]
                        = FSq(FMul(factor[i], StdDevs(last_gst[1])[i]))


(***************************************************************************)
(* C17: when add_sentence is called from several threads at once on one    *)
(* driver, no GGA call computes its covariance from standard deviations    *)
(* written by different calls: the three values it reads were all last     *)
(* written by one call.  Checked under SpecThreads.                        *)
(***************************************************************************)
C17_CovarianceFromOneCall ==
    \A t \in Threads :
        Len(local[t].used) = 3 =>
            /\ local[t].used[1] = local[t].used[2]
            /\ local[t].used[2] = local[t].used[3]


\* the messages of the auxiliary publishers published by the latest call
AuxReports == SelectSeq(published, LAMBDA m : m.kind \in AuxTags)

\* the latest call ran one of the branches from HDT to VDO
HandledAux == Parsable /\ CallTag \in AuxTags

(***************************************************************************)
(* C21: a call that handles an auxiliary sentence (HDT, RSA, GSA, ZDA,     *)
(* RPM, HDG, ROT, GSV, VTG, VBW, GLL, VDM, VDO) leaves valid_fix,          *)
(* using_receiver_epe and the three standard deviations as they were and   *)
(* publishes, apart from the echo on nmea_sentences, exactly one message,  *)
(* on the publisher of that sentence type, carrying the call's time, the   *)
(* frame id and the sentence's fields; except that an RSA sentence whose   *)
(* rudder angle is zero publishes none.  No fix, velocity or time          *)
(* reference is published.                                                 *)
(***************************************************************************)
C21_AuxiliaryOneReport ==
    HandledAux =>
        /\ FusionState(Self) = call.pre
        /\ \A i \in DOMAIN published :
                published[i].kind \in {"HeaderString"} \cup AuxTags
        /\ IF CallTag = "RSA" /\ CallData.rudder_angle = Num(0, 0)
           THEN AuxReports = <<>>
           ELSE /\ Len(AuxReports) = 1
                /\ AuxReports[1].kind = CallTag
                /\ AuxReports[1].data = CallData
                /\ AuxReports[1].stamp = CallTime
                /\ AuxReports[1].frame_id = FrameId

\* an RSA sentence with rudder angle zero was handled by a driver that had
\* taken standard deviations from a GST sentence, and published no report
C21_Witness ==
    /\ HandledAux
    /\ CallTag = "RSA"
    /\ CallData.rudder_angle = Num(0, 0)
    /\ AuxReports = <<>>
    /\ using_receiver_epe
    /\ ~isnan(lon_std_dev)


\* the driver object as __init__ leaves it, with the configuration of Self
Constructed ==
    [Self EXCEPT !.valid_fix = FALSE, !.using_receiver_epe = FALSE,
                 !.lon_std_dev = NaN, !.lat_std_dev = NaN, !.alt_std_dev = NaN]

\* the NavSatFix messages a newly constructed driver publishes for the
\* arguments of the latest call
FreshFixes ==
    SelectSeq(add_sentence(Constructed, call.nmea_string, FrameId,
                           call.timestamp).pub,
              LAMBDA m : m.kind = "NavSatFix")

(***************************************************************************)
(* C22: as long as no GST sentence has been handled, the NavSatFix         *)
(* published for a GGA sentence has the status, the covariance type and    *)
(* the covariance diagonal that a newly constructed driver of the same     *)
(* configuration publishes for that sentence: whatever sentences came      *)
(* before, the fix is the same.                                            *)
(***************************************************************************)
C22_FixIndependentOfHistory ==
    (HandledGGA /\ last_gst = <<>>) =>
        /\ Len(Fixes) = 1
        /\ Len(FreshFixes) = 1
        /\ Fixes[1].status = FreshFixes[1].status
        /\ Fixes[1].position_covariance_type
                = FreshFixes[1].position_covariance_type
        /\ Diagonal(Fixes[1]) = Diagonal(FreshFixes[1])

\* a GGA sentence was handled, with no GST sentence before it, by a driver
\* in which an earlier GGA sentence of another quality had stored its defaults
C22_Witness ==
    /\ HandledGGA
    /\ last_gst = <<>>
    /\ ~isnan(call.pre.lon_std_dev)
    /\ call.pre.lon_std_dev # lon_std_dev
    /\ call.pre.valid_fix # valid_fix
    /\ Len(Fixes) = 1


(***************************************************************************)
(* C23: right after every GGA sentence handled in default mode (use_RMC    *)
(* false), valid_fix is true if and only if the status of the NavSatFix    *)
(* published by that call is not STATUS_NO_FIX; so no fix with a usable    *)
(* status is published while valid_fix is false.  This holds of the latest *)
(* call and, from every reachable state, of a GGA sentence with any fix    *)
(* quality code from -2 to 10 (every key of the quality table and codes    *)
(* that are not keys).                                                     *)
(***************************************************************************)
C23_ValidFixMatchesStatus ==
    /\ HandledGGA =>
            /\ Len(Fixes) = 1
            /\ valid_fix <=> Fixes[1].status # STATUS_NO_FIX
    /\ ~use_RMC =>
            \A q \in -2 .. 10 :
                LET r == add_sentence(Self,
                            Sentence(GGA(q, <<Num(45319, 0), 0>>, Num(9, -1),
                                         <<"N", "E">>)),
                            FrameId, None)
                    fixes == SelectSeq(r.pub, LAMBDA m : m.kind = "NavSatFix")
                IN  /\ Len(fixes) = 1
                    /\ r.self.valid_fix <=> fixes[1].status # STATUS_NO_FIX

\* a GGA sentence with a differential fix was handled by a driver whose
\* valid_fix was false: valid_fix became true and the status is a fix status
C23_Witness ==
    /\ HandledGGA
    /\ ~call.pre.valid_fix
    /\ valid_fix
    /\ Len(Fixes) = 1
    /\ Fixes[1].status = STATUS_SBAS_FIX

====
